---- MODULE Spec2Model ----
(***************************************************************************)
(* auTO: a chat bot that runs a Challonge bracket from a chat channel.     *)
(*                                                                         *)
(* The model follows src/auTO/auTO.py (the TOCommands cog and the          *)
(* Tournament session) and the bracket client it drives.  Command          *)
(* handlers are coroutines on one event loop: a handler runs without       *)
(* interruption from one await to the next, so every action below is the   *)
(* code between two awaits of one handler, or one step of the environment  *)
(* (the bracket service answering, a timer firing, a user writing a        *)
(* direct message).                                                        *)
(*                                                                         *)
(* Strings the code inspects character by character (display names, score  *)
(* strings, replies) are sequences of one-character strings.               *)
(***************************************************************************)
EXTENDS Integers, Sequences, FiniteSets, TLC

VARIABLES
    tournament_map,   \* TOCommands.tournament_map: key -> session (a dict)
    tourneys,         \* the Tournament objects created so far, by identity
    handlers,         \* the command handlers (coroutines): position and locals
    remote,           \* bracket service: state of each match of the bracket
    remote_state,     \* bracket service: state of the tournament
    participants,     \* bracket service: the participants, in its order
    members,          \* chat platform: member -> display name
    config,           \* config: the CHALLONGE_KEY entry, "" when not set
    reportCalls,      \* bracket service: report mutations received, per match
    finalizeCalls,    \* bracket service: finalize mutations received
    rounds,           \* bracket service: round index of each match
    underwayCalls,    \* bracket service: mark-underway mutations, per match
    pingCalls         \* channel: announcements that mention the players, per match

vars == <<tournament_map, tourneys, handlers, remote, remote_state,
          participants, members, config, reportCalls, finalizeCalls,
          rounds, underwayCalls, pingCalls>>

\* What no command changes.
env == <<remote_state, participants, members, config, rounds>>

----------------------------------------------------------------------------
(* Bounds of the model.                                                    *)

\* Command handlers that may run (and interleave) in one behaviour.
MaxHandlers == 2

\* Longest score string a report is given.
MaxScoreLen == 4

\* Most participants of a bracket.
MaxPlayers == 8

----------------------------------------------------------------------------
(* Strings.                                                                *)

Digits == {"0", "1", "2", "3"}

ScoreChars == Digits \cup {"-", "x"}

\* str.lower(), one character.
LowerChar(c) ==
    CASE c = "A" -> "a"
      [] c = "B" -> "b"
      [] c = "C" -> "c"
      [] c = "D" -> "d"
      [] c = "N" -> "n"
      [] c = "O" -> "o"
      [] c = "T" -> "t"
      [] c = "Y" -> "y"
      [] OTHER -> c

\* str.lower().
Lower(s) == [i \in DOMAIN s |-> LowerChar(s[i])]

\* istrcmp(a, b): equality ignoring case.
istrcmp(a, b) == Lower(a) = Lower(b)

\* str.strip(): leading and trailing blanks removed.
RECURSIVE Strip(_)
Strip(s) ==
    IF s = <<>> THEN s
    ELSE IF Head(s) = " " THEN Strip(Tail(s))
    ELSE IF s[Len(s)] = " " THEN Strip(SubSeq(s, 1, Len(s) - 1))
    ELSE s

\* s[::-1]: the characters in reverse order.
Reverse(s) == [i \in DOMAIN s |-> s[Len(s) + 1 - i]]

\* Strings over a set of characters, up to a length.
StringsUpTo(chars, n) == UNION {[1..k -> chars] : k \in 0..n}

----------------------------------------------------------------------------
(* The score string of a report.                                           *)

IsDigit(c) == c \in Digits

\* re.match(r'\d-\d', scores_csv): a match at the start of the string; what
\* follows the three characters is not looked at.
ScoreMatches(s) ==
    /\ Len(s) >= 3
    /\ IsDigit(s[1])
    /\ s[2] = "-"
    /\ IsDigit(s[3])

\* scores_csv.split('-').
RECURSIVE Split(_)
Split(s) ==
    LET dashes == {i \in DOMAIN s : s[i] = "-"}
    IN  IF dashes = {} THEN <<s>>
        ELSE LET i == CHOOSE j \in dashes : \A k \in dashes : j <= k
             IN  <<SubSeq(s, 1, i - 1)>> \o Split(SubSeq(s, i + 1, Len(s)))

\* Whether int(n) accepts the text (over the characters of the model).
IsInt(p) == p # <<>> /\ \A i \in DOMAIN p : IsDigit(p[i])

DigitVal(c) ==
    CASE c = "0" -> 0 [] c = "1" -> 1 [] c = "2" -> 2 [] c = "3" -> 3 [] OTHER -> 0

\* int(n) for a text int() accepts.
RECURSIVE IntOf(_)
IntOf(p) ==
    IF p = <<>> THEN 0
    ELSE 10 * IntOf(SubSeq(p, 1, Len(p) - 1)) + DigitVal(p[Len(p)])

\* [int(n) for n in scores_csv.split('-')] raises ValueError unless every
\* part is an integer.
ScoresParse(s) == \A i \in DOMAIN Split(s) : IsInt(Split(s)[i])

\* scores = [int(n) for n in scores_csv.split('-')].
Scores(s) == [i \in DOMAIN Split(s) |-> IntOf(Split(s)[i])]

\* The score string sent for a reporter in the player2 slot.
ReversedScore(s) == Reverse(s)

\* The score string report() hands to the bracket service.
SentScore(s, reporterIsPlayer2) ==
    IF reporterIsPlayer2 THEN ReversedScore(s) ELSE s

\* (defect) the win flag is not inverted for a reporter in the player2 slot.
Player1Win_NotInverted(s, reporterIsPlayer2) == Scores(s)[1] > Scores(s)[2]

\* player1_win after the slot is taken into account.
Player1Win(s, reporterIsPlayer2) ==
    LET first == Scores(s)[1] > Scores(s)[2]
    IN  IF reporterIsPlayer2 THEN ~first ELSE first

\* winner_id.
WinnerId(match, s, reporterIsPlayer2) ==
    IF Player1Win(s, reporterIsPlayer2) THEN match.player1_id
                                        ELSE match.player2_id

----------------------------------------------------------------------------
(* The bracket, the chat community and the registry key.                   *)

NameAlice == <<"A", "l", "i", "c", "e">>
NameBob   == <<"B", "o", "b">>
NameCarol == <<"C", "a", "r", "o", "l">>
NameDave  == <<"D", "a", "v", "e">>
NameTO    == <<"T", "O">>

\* The bracket's matches: match 1 is Alice (10) against Bob (20), match 2
\* Carol (30) against Dave (40).
MatchIds == {1, 2}
PlayerIds == {10, 20, 30, 40}
Player1Of(id) == IF id = 1 THEN 10 ELSE 30
Player2Of(id) == IF id = 1 THEN 20 ELSE 40

BaseName(pid) ==
    CASE pid = 10 -> NameAlice
      [] pid = 20 -> NameBob
      [] pid = 30 -> NameCarol
      [] OTHER    -> NameDave

\* How names are written: as above, or all in lower case.
Casings == {"capital", "lower"}
Cased(name, casing) == IF casing = "lower" THEN Lower(name) ELSE name

\* Chat members that issue commands: the organizer and the accounts of the
\* two players of match 1, with their display names as capitalised above.
Members == {"to", "ua", "ub"}
MemberBase(u) ==
    CASE u = "ua" -> NameAlice
      [] u = "ub" -> NameBob
      [] u = "uc" -> NameCarol
      [] u = "ud" -> NameDave
      [] OTHER    -> NameTO

\* Members that write in the channel: those above and the account of Carol.
Chatters == Members \cup {"uc"}

\* The one (guild, channel) pair commands are issued in.
Key == "chan"

\* Tournament.key(ctx).
KeyOf(ctx) == Key

None == 0

NoMatch ==
    [id |-> None, player1 |-> <<>>, player2 |-> <<>>,
     player1_id |-> None, player2_id |-> None, round |-> <<>>, state |-> ""]

----------------------------------------------------------------------------
(* Challonge.round_name: the short label of a round.                       *)

\* ceil(math.log(n, 2)) for n >= 1: the least k with 2^k >= n.
CeilLog2(n) == CHOOSE k \in 0..n : 2^k >= n /\ \A j \in 0..(k - 1) : 2^j < n

\* ceil(math.log(math.log(n, 2), 2)) for n >= 2: the least j with
\* 2^(2^j) >= n.
CeilLogLog2(n) ==
    CHOOSE j \in 0..CeilLog2(n) :
        2^(2^j) >= n /\ \A i \in 0..(j - 1) : 2^(2^i) < n

\* math.log(x, 2) raises ValueError (math domain error) unless x > 0.
MathLogRaises(x) == x <= 0

\* num_winners_rounds(num_players).
num_winners_rounds(n) == CeilLog2(n) + 1

\* num_losers_rounds(num_players).
num_losers_rounds(n) == CeilLog2(n) + CeilLogLog2(n)

\* round_name raises: math.log(0, 2) for no player, and for one player
\* math.log(log2, 2) with log2 = 0.0.
RoundNameRaises(n) == MathLogRaises(n) \/ MathLogRaises(CeilLog2(n))

\* (defect) the special case is left out.
LosersRoundsUsed_NoSpecialCase(n) == num_losers_rounds(n)

\* losers_rounds as round_name uses it: one less when it equals
\* winners_rounds ("special case for when #players is a power of 2").
LosersRoundsUsed(n) ==
    IF num_winners_rounds(n) = num_losers_rounds(n)
    THEN num_losers_rounds(n) - 1
    ELSE num_losers_rounds(n)

\* abs(round_num).
Abs(i) == IF i < 0 THEN -i ELSE i

DigitChar(d) ==
    CASE d = 0 -> "0" [] d = 1 -> "1" [] d = 2 -> "2" [] d = 3 -> "3"
      [] d = 4 -> "4" [] d = 5 -> "5" [] d = 6 -> "6" [] d = 7 -> "7"
      [] d = 8 -> "8" [] OTHER -> "9"

\* '{}'.format(k) for k >= 0: the decimal digits.
RECURSIVE Format(_)
Format(k) ==
    IF k < 10 THEN <<DigitChar(k)>>
    ELSE Format(k \div 10) \o <<DigitChar(k % 10)>>

\* (defect) the quarter-final tier is left out.
RoundSuffix_NoQuarterFinal(round_num, winners_rounds, losers_rounds) ==
    IF round_num = winners_rounds - 1 \/ round_num = -losers_rounds
    THEN <<"F">>
    ELSE IF round_num = winners_rounds - 2 \/ round_num = -losers_rounds + 1
    THEN <<"S", "F">>
    ELSE <<"R">> \o Format(Abs(round_num))

\* The suffix of a round that is not the grand final.
RoundSuffix(round_num, winners_rounds, losers_rounds) ==
    IF round_num = winners_rounds - 1 \/ round_num = -losers_rounds
    THEN <<"F">>
    ELSE IF round_num = winners_rounds - 2 \/ round_num = -losers_rounds + 1
    THEN <<"S", "F">>
    ELSE IF round_num = winners_rounds - 3 \/ round_num = -losers_rounds + 2
    THEN <<"Q", "F">>
    ELSE <<"R">> \o Format(Abs(round_num))

\* round_name(round_num) in a bracket of n players (n >= 2).
round_name(round_num, n) ==
    IF round_num = num_winners_rounds(n) THEN <<"G", "F">>
    ELSE <<IF round_num > 0 THEN "W" ELSE "L">>
         \o RoundSuffix(round_num, num_winners_rounds(n), LosersRoundsUsed(n))

----------------------------------------------------------------------------
(* Tournament: one session.                                                *)

\* The player ids the bracket service gives for a match: None while the
\* place is not taken by a participant.
ParticipantIds == {participants[i].id : i \in DOMAIN participants}
Player1Id(id) == IF Player1Of(id) \in ParticipantIds THEN Player1Of(id)
                                                     ELSE None
Player2Id(id) == IF Player2Of(id) \in ParticipantIds THEN Player2Of(id)
                                                     ELSE None

\* get_matches skips a match while one of its players is not known.
HasPlayers(id) == Player1Id(id) # None /\ Player2Id(id) # None

\* A participant as the bracket service lists it: the primary id, the name
\* and the alias ids of the group stage (no order: every one of them is
\* given the same name).
Participant(id, name, aliases) ==
    [id |-> id, name |-> name, group_player_ids |-> aliases]

\* Challonge.get_players: the names of raw_dict['participants'], stripped.
get_players(raw_participants) ==
    [i \in DOMAIN raw_participants |-> Strip(raw_participants[i].name)]

\* player_map[k] = v for every k of ks: a key that is there is overwritten.
Assign(map, ks, v) ==
    [k \in DOMAIN map \cup ks |-> IF k \in ks THEN v ELSE map[k]]

\* Challonge.set_player_map after the first i participants: the primary id
\* is written first, then the alias ids, participant after participant.
RECURSIVE PlayerMapUpTo(_, _)
PlayerMapUpTo(raw_participants, i) ==
    IF i = 0 THEN <<>>
    ELSE LET p == raw_participants[i]
             player_name == Strip(p.name)
         IN  Assign(Assign(PlayerMapUpTo(raw_participants, i - 1),
                           {p.id}, player_name),
                    p.group_player_ids, player_name)

\* Challonge.set_player_map.
set_player_map(raw_participants) ==
    PlayerMapUpTo(raw_participants, Len(raw_participants))

\* len(self.get_players()): the participants of raw_dict, as last fetched.
NumPlayers(raw_participants) == Len(get_players(raw_participants))

\* Challonge.get_matches raises what round_name raises, when it comes to
\* name the round of a match.
GetMatchesRaises(raw_participants) ==
    /\ \E id \in MatchIds : HasPlayers(id)
    /\ RoundNameRaises(NumPlayers(raw_participants))

\* Challonge.get_matches: `self.player_map[player1_id]` raises KeyError for
\* a player that get_raw did not list.
GetMatchesKeyError(player_map) ==
    \E id \in MatchIds :
        /\ HasPlayers(id)
        /\ {Player1Id(id), Player2Id(id)} \ DOMAIN player_map # {}

\* Challonge.get_matches: a record per match whose two players are known,
\* names from the player map, in the service's order.
get_matches(mstate, player_map, raw_participants) ==
    LET all == [id \in 1..Cardinality(MatchIds) |->
                  IF HasPlayers(id)
                  THEN [id |-> id,
                        player1 |-> player_map[Player1Id(id)],
                        player2 |-> player_map[Player2Id(id)],
                        player1_id |-> Player1Id(id),
                        player2_id |-> Player2Id(id),
                        round |-> round_name(rounds[id],
                                             NumPlayers(raw_participants)),
                        state |-> mstate[id]]
                  ELSE NoMatch]
    IN  SelectSeq(all, LAMBDA m : m # NoMatch)

\* (defect) the fetched matches are not filtered.
OpenOf_NoFilter(matches) == matches

\* Tournament.get_open_matches: the fetched matches that are open.
OpenOf(matches) == SelectSeq(matches, LAMBDA m : m.state = "open")

\* Tournament.find_match: the first open match with the name in a slot.
find_match(open_matches, username) ==
    LET hits == {i \in DOMAIN open_matches :
                    Lower(username) \in {Lower(open_matches[i].player1),
                                         Lower(open_matches[i].player2)}}
    IN  IF hits = {} THEN NoMatch
        ELSE open_matches[CHOOSE i \in hits : \A j \in hits : i <= j]

\* Tournament.get_open_matches, once the matches are fetched: the session
\* with its open list replaced.
get_open_matches(session, mstate) ==
    [session EXCEPT
        !.open_matches = OpenOf(get_matches(mstate, session.player_map,
                                            session.raw_participants))]

\* report(): is the reporter in the exclusion set?
IsThrottled(username, recently_called) ==
    Lower(username) \in recently_called

\* add_to_recently_called: the name that goes into the exclusion set.
OtherPlayer(match, reporter) ==
    IF istrcmp(match.player1, reporter) THEN match.player2 ELSE match.player1

\* (defect) the id is left in the called set.
RemoveCalled_Kept(called_matches, id) == called_matches

\* report_match: self.called_matches.remove(match['id']).
RemoveCalled(called_matches, id) == called_matches \ {id}

\* (defect) the second member's match is not compared with the first's.
MarkedMatch_FirstOnly(open_matches, name1, name2) ==
    find_match(open_matches, name1).id

\* mark_match_underway: the id of the open match both names are in, None
\* when one of them is in no open match or they are in different ones.
MarkedMatch(open_matches, name1, name2) ==
    LET m1 == find_match(open_matches, name1)
        m2 == find_match(open_matches, name2)
    IN  IF m1 = NoMatch \/ m2 = NoMatch THEN None
        ELSE IF m1.id # m2.id THEN None
        ELSE m1.id

\* Challonge.player_map is None until get_raw has fetched the bracket (an
\* empty map is a bracket without participants).
PlayerMapIsNone(session) == session.raw_state = ""

\* Tournament.__init__.
NewTournament(owner) ==
    [owner |-> owner,
     raw_state |-> "",
     player_map |-> <<>>,
     raw_participants |-> <<>>,
     open_matches |-> <<>>,
     called_matches |-> {},
     recently_called |-> {}]

\* TOCommands.get_tourney: the session registered for the key, or None.
get_tourney(key) ==
    IF key \in DOMAIN tournament_map THEN tournament_map[key] ELSE None

----------------------------------------------------------------------------
(* Command handlers.                                                       *)

Handlers == 1..MaxHandlers

IdleHandler ==
    [pc |-> "idle", cmd |-> "", author |-> "", tourney |-> None,
     match |-> NoMatch, winner_id |-> None, scores_csv |-> <<>>,
     submitted |-> <<>>, other |-> <<>>, fetched |-> <<>>, reply |-> <<>>,
     mention |-> "", result |-> ""]

\* Handlers are started in the order of their numbers (which handler object
\* serves a command makes no difference).
CanStart(h) ==
    /\ handlers[h].pc = "idle"
    /\ \A g \in Handlers : g < h => handlers[g].pc # "idle"

\* The handler returns, or an exception ends it: only the outcome is kept.
Finished(hr, outcome) ==
    [IdleHandler EXCEPT !.pc = "done", !.cmd = hr.cmd, !.author = hr.author,
                        !.result = outcome]

\* A command arrives: ctx.author and, through has_tourney, the session.
Started(cmd, u) ==
    [IdleHandler EXCEPT !.pc = "run", !.cmd = cmd, !.author = u,
                        !.tourney = get_tourney(KeyOf(u))]

\* has_tourney around matches(): look the session up, then trigger_typing
\* and the fetch of the matches.
EnterMatches(hr) ==
    IF get_tourney(KeyOf(hr.author)) = None
    THEN Finished(hr, "NoTournament")
    ELSE [hr EXCEPT !.pc = "matches_fetch",
                    !.tourney = get_tourney(KeyOf(hr.author))]

\* has_tourney around results(): look the session up, then get_top8.
EnterResults(hr) ==
    IF get_tourney(KeyOf(hr.author)) = None
    THEN Finished(hr, "NoTournament")
    ELSE [hr EXCEPT !.pc = "results_top8",
                    !.tourney = get_tourney(KeyOf(hr.author))]

\* (defect) the key stays registered.
tourney_stop_Keeps(key) == tournament_map

\* tourney_stop(ctx): tournament_map.pop(key), the dict without the key.
tourney_stop(key) ==
    [k \in DOMAIN tournament_map \ {key} |-> tournament_map[k]]

\* The handler calls tourney_stop(ctx) and ends with the outcome; the pop
\* raises KeyError when the key is not registered.
StopAndFinish(h, hr, outcome) ==
    IF KeyOf(hr.author) \in DOMAIN tournament_map
    THEN /\ tournament_map' = tourney_stop(KeyOf(hr.author))
         /\ handlers' = [handlers EXCEPT ![h] = Finished(hr, outcome)]
    ELSE /\ handlers' = [handlers EXCEPT ![h] = Finished(hr, "KeyError")]
         /\ UNCHANGED tournament_map

----------------------------------------------------------------------------
(* report                                                                  *)

\* report(), lines 375-401: why the report is rejected, or "" when it goes
\* on to the bracket service.
ReportRejection(t, username, s) ==
    IF ~ScoreMatches(s) THEN "MalformedScore"
    ELSE IF ~ScoresParse(s) THEN "ValueError"
    ELSE IF Scores(s)[1] = Scores(s)[2] THEN "TiedScore"
    ELSE IF IsThrottled(username, tourneys[t].recently_called) THEN "Throttled"
    ELSE IF find_match(tourneys[t].open_matches, username) = NoMatch
         THEN "NoActiveMatch"
    ELSE ""

\* report() up to its first await (trigger_typing).
ReportInvoke(h, u, s) ==
    /\ CanStart(h)
    /\ LET hr == Started("report", u)
           t == hr.tourney
           username == members[u]
           m == find_match(tourneys[t].open_matches, username)
           p2 == istrcmp(username, m.player2)
       IN  handlers' = [handlers EXCEPT ![h] =
               IF t = None THEN Finished(hr, "NoTournament")
               ELSE IF ReportRejection(t, username, s) # ""
                    THEN [Finished(hr, ReportRejection(t, username, s))
                             EXCEPT !.submitted = s]
               ELSE [hr EXCEPT !.pc = "report_typing",
                               !.match = m,
                               !.submitted = s,
                               !.scores_csv = SentScore(s, p2),
                               !.winner_id = WinnerId(m, s, p2)]]
    /\ UNCHANGED <<tournament_map, tourneys, remote, env, underwayCalls, pingCalls,
                   reportCalls, finalizeCalls>>

\* report_match -> add_to_recently_called, up to asyncio.sleep(5).
ReportAddRecent(h) ==
    /\ handlers[h].pc = "report_typing"
    /\ LET hr == handlers[h]
           other == OtherPlayer(hr.match, members[hr.author])
       IN  /\ tourneys' = [tourneys EXCEPT ![hr.tourney].recently_called =
                               @ \cup {other}]
           /\ handlers' = [handlers EXCEPT ![h] =
                               [hr EXCEPT !.pc = "report_sleep",
                                          !.other = other]]
    /\ UNCHANGED <<tournament_map, remote, env, underwayCalls, pingCalls,
                   reportCalls, finalizeCalls>>

\* (defect) the name stays in the exclusion set.
RemoveRecent_Kept(recently_called, other) == recently_called

\* add_to_recently_called after the sleep: recently_called.remove(other).
RemoveRecent(recently_called, other) == recently_called \ {other}

\* The sleep ends: recently_called.remove(other) (KeyError when the name is
\* not there), then the report mutation is sent.
ReportSleepDone(h) ==
    /\ handlers[h].pc = "report_sleep"
    /\ LET hr == handlers[h]
       IN  IF hr.other \notin tourneys[hr.tourney].recently_called
           THEN /\ handlers' = [handlers EXCEPT ![h] = Finished(hr, "KeyError")]
                /\ UNCHANGED <<tourneys, reportCalls>>
           ELSE /\ tourneys' = [tourneys EXCEPT
                        ![hr.tourney].recently_called =
                            RemoveRecent(@, hr.other)]
                /\ reportCalls' = [reportCalls EXCEPT ![hr.match.id] = @ + 1]
                /\ handlers' = [handlers EXCEPT ![h] =
                                    [hr EXCEPT !.pc = "report_put"]]
    /\ UNCHANGED <<tournament_map, remote, env, underwayCalls, pingCalls,
                   finalizeCalls>>

\* The report mutation returns: called_matches.remove(id) (KeyError when the
\* id is not there), then matches().
ReportPutReturn(h) ==
    /\ handlers[h].pc = "report_put"
    /\ LET hr == handlers[h]
           id == hr.match.id
       IN  /\ remote' = [remote EXCEPT ![id] = "complete"]
           /\ IF id \notin tourneys[hr.tourney].called_matches
              THEN /\ handlers' = [handlers EXCEPT ![h] =
                                       Finished(hr, "KeyError")]
                   /\ UNCHANGED tourneys
              ELSE /\ tourneys' = [tourneys EXCEPT
                           ![hr.tourney].called_matches = RemoveCalled(@, id)]
                   /\ handlers' = [handlers EXCEPT ![h] = EnterMatches(hr)]
    /\ UNCHANGED <<tournament_map, env, underwayCalls, pingCalls, reportCalls,
                   finalizeCalls>>

\* The report mutation fails (raise_for_status): the error ends the command.
ReportPutFails(h) ==
    /\ handlers[h].pc = "report_put"
    /\ handlers' = [handlers EXCEPT ![h] =
                        Finished(handlers[h], "ClientResponseError")]
    /\ UNCHANGED <<tournament_map, tourneys, remote, env, underwayCalls, pingCalls,
                   reportCalls, finalizeCalls>>


----------------------------------------------------------------------------
(* matches, end_tournament, results, stop                                  *)

\* Replies a member may write in a direct message.
ReplyY   == <<"y">>
ReplyYes == <<"Y", "e", "s", " ">>
ReplyNo  == <<"n", "o">>
Replies  == {ReplyY, ReplyYes, ReplyNo}

\* confirm(): msg.content.strip().lower() in ['y', 'yes'].
IsYes(content) == Lower(Strip(content)) \in {<<"y">>, <<"y", "e", "s">>}

\* confirm(ctx, question): the member whose direct message is awaited.
ConfirmAsked(hr) == hr.author

\* is_dm_response(owner): the message is the asked member's, in their DMs.
is_dm_response(asked, sender) == sender = asked

\* is_to: owner, administrator, or holder of the TO role.  Of the members,
\* only the organizer is an administrator or has the role.
is_to(u, t) == u = tourneys[t].owner \/ u = "to"

\* end_tournament: `if e == 422` compares the exception object with an
\* integer, which is never equal.
IsAlreadyFinalized(status) == FALSE

\* matches command.
MatchesInvoke(h, u) ==
    /\ CanStart(h)
    /\ handlers' = [handlers EXCEPT ![h] = EnterMatches(Started("matches", u))]
    /\ UNCHANGED <<tournament_map, tourneys, remote, env, underwayCalls, pingCalls,
                   reportCalls, finalizeCalls>>

\* The bracket service answers the fetch of the matches with its state at
\* that moment.
MatchesServed(h) ==
    /\ handlers[h].pc = "matches_fetch"
    /\ handlers' = [handlers EXCEPT ![h] =
                        [handlers[h] EXCEPT !.pc = "matches_resp",
                                            !.fetched = remote]]
    /\ UNCHANGED <<tournament_map, tourneys, remote, env, underwayCalls, pingCalls,
                   reportCalls, finalizeCalls>>

\* matches(): the players of an announced match are pinged (mention_user)
\* when its id is not in the called set.
Mentioned_ids(ids, called_matches) == ids \ called_matches

\* get_open_matches returns: the open list is replaced; with no open match
\* end_tournament asks for confirmation, otherwise the matches are announced
\* and the new ones marked called.  On a session whose get_raw has not
\* finished, player_map is still None and get_matches raises TypeError.
MatchesReturn(h) ==
    /\ handlers[h].pc = "matches_resp"
    /\ LET hr == handlers[h]
           t == hr.tourney
           refreshed == get_open_matches(tourneys[t], hr.fetched)
           open == refreshed.open_matches
           ids == {open[i].id : i \in DOMAIN open}
       IN  IF PlayerMapIsNone(tourneys[t])
           THEN /\ handlers' = [handlers EXCEPT ![h] = Finished(hr, "TypeError")]
                /\ UNCHANGED <<tourneys, pingCalls>>
           ELSE IF GetMatchesKeyError(tourneys[t].player_map)
           THEN /\ handlers' = [handlers EXCEPT ![h] = Finished(hr, "KeyError")]
                /\ UNCHANGED <<tourneys, pingCalls>>
           ELSE IF GetMatchesRaises(tourneys[t].raw_participants)
           THEN /\ handlers' = [handlers EXCEPT ![h] = Finished(hr, "ValueError")]
                /\ UNCHANGED <<tourneys, pingCalls>>
           ELSE /\ tourneys' = [tourneys EXCEPT ![t] =
                       [refreshed EXCEPT !.called_matches = @ \cup ids]]
                /\ pingCalls' = [id \in MatchIds |->
                       IF id \in Mentioned_ids(ids, tourneys[t].called_matches)
                       THEN pingCalls[id] + 1 ELSE pingCalls[id]]
                /\ handlers' = [handlers EXCEPT ![h] =
                       IF open = <<>>
                       THEN [hr EXCEPT !.pc = "confirm_wait", !.fetched = <<>>]
                       ELSE Finished(hr, "announced")]
    /\ UNCHANGED <<tournament_map, remote, env, underwayCalls,
                   reportCalls, finalizeCalls>>

\* The positions in which a handler awaits a direct message (wait_for with
\* is_dm_response): end_tournament's confirm, start's request for the API
\* key, start's confirm.
AwaitsReply(hr) ==
    hr.pc \in {"confirm_wait", "start_key_wait", "start_confirm_wait"}

\* Where the handler goes on once the message is there.
ReplyPc(pc) ==
    CASE pc = "confirm_wait" -> "confirm_reply"
      [] pc = "start_key_wait" -> "start_key_reply"
      [] OTHER -> "start_confirm_reply"

\* A member writes a direct message to the bot: every wait_for whose check
\* accepts it receives it.
DirectMessage(u, content) ==
    /\ \E h \in Handlers : /\ AwaitsReply(handlers[h])
                           /\ is_dm_response(ConfirmAsked(handlers[h]), u)
    /\ handlers' = [h \in Handlers |->
           IF /\ AwaitsReply(handlers[h])
              /\ is_dm_response(ConfirmAsked(handlers[h]), u)
           THEN [handlers[h] EXCEPT !.pc = ReplyPc(handlers[h].pc),
                                    !.reply = content]
           ELSE handlers[h]]
    /\ UNCHANGED <<tournament_map, tourneys, remote, env, underwayCalls, pingCalls,
                   reportCalls, finalizeCalls>>

\* end_tournament after confirm(): return unless the reply is a yes, else
\* send the finalize mutation.
ConfirmResume(h) ==
    /\ handlers[h].pc = "confirm_reply"
    /\ IF IsYes(handlers[h].reply)
       THEN /\ finalizeCalls' = finalizeCalls + 1
            /\ handlers' = [handlers EXCEPT ![h] =
                   [handlers[h] EXCEPT !.pc = "finalize_put", !.reply = <<>>]]
       ELSE /\ handlers' = [handlers EXCEPT ![h] =
                   Finished(handlers[h], "declined")]
            /\ UNCHANGED finalizeCalls
    /\ UNCHANGED <<tournament_map, tourneys, remote, env, underwayCalls, pingCalls,
                   reportCalls>>

\* Answers of the bracket service to the finalize mutation: done, already
\* finalized (422), or another error status.
FinalizeAnswers == {200, 422, 500}

\* finalize returns or raises; on success results() follows.
FinalizeReturn(h, status) ==
    /\ handlers[h].pc = "finalize_put"
    /\ handlers' = [handlers EXCEPT ![h] =
           IF status = 200 \/ IsAlreadyFinalized(status)
           THEN EnterResults(handlers[h])
           ELSE Finished(handlers[h],
                         IF status = 422 THEN "ClientResponseError422"
                                         ELSE "ClientResponseError")]
    /\ UNCHANGED <<tournament_map, tourneys, remote, env, underwayCalls, pingCalls,
                   reportCalls, finalizeCalls>>

\* get_top8 returns: nothing while a match is not complete, otherwise the
\* standings, which are sent to the channel.
Top8Return(h) ==
    /\ handlers[h].pc = "results_top8"
    /\ handlers' = [handlers EXCEPT ![h] =
           IF \E id \in MatchIds : remote[id] # "complete"
           THEN Finished(handlers[h], "NoResults")
           ELSE [handlers[h] EXCEPT !.pc = "results_send"]]
    /\ UNCHANGED <<tournament_map, tourneys, remote, env, underwayCalls, pingCalls,
                   reportCalls, finalizeCalls>>

\* results() after the standings are sent: tourney_stop(ctx), a dict.pop
\* that raises KeyError when the key is gone.
ResultsSent(h) ==
    /\ handlers[h].pc = "results_send"
    /\ StopAndFinish(h, handlers[h], "closed")
    /\ UNCHANGED <<tourneys, remote, env, underwayCalls, pingCalls, reportCalls,
                   finalizeCalls>>

\* stop command: has_tourney, is_to, tourney_stop(ctx).
StopInvoke(h, u) ==
    /\ CanStart(h)
    /\ LET hr == Started("stop", u)
       IN  IF hr.tourney = None
           THEN /\ handlers' = [handlers EXCEPT ![h] =
                                    Finished(hr, "NoTournament")]
                /\ UNCHANGED tournament_map
           ELSE IF ~is_to(u, hr.tourney)
           THEN /\ handlers' = [handlers EXCEPT ![h] = Finished(hr, "NotTO")]
                /\ UNCHANGED tournament_map
           ELSE StopAndFinish(h, hr, "stopped")
    /\ UNCHANGED <<tourneys, remote, env, underwayCalls, pingCalls, reportCalls,
                   finalizeCalls>>

----------------------------------------------------------------------------
(* on_message                                                              *)

\* What a message in the channel holds: a netplay code and one mention, or
\* neither.
MessageKinds == {"code", "chat"}

\* Most report mutations for one match after which finished handlers are
\* no longer taken up again.
MaxCalls == 2

\* on_message(message): no session, nothing; a message with a netplay code
\* and one mention goes to mark_match_underway(mention, author), which sends
\* the mark-underway mutation for the match the two are in.
OnMessage(h, u, v, kind) ==
    /\ CanStart(h)
    /\ LET hr == [Started("message", u) EXCEPT !.mention = v]
           t == hr.tourney
           id == MarkedMatch(tourneys[t].open_matches, members[v], members[u])
       IN  IF t = None
           THEN /\ handlers' = [handlers EXCEPT ![h] =
                       [Finished(hr, "NoTournament") EXCEPT !.mention = v]]
                /\ UNCHANGED underwayCalls
           ELSE IF kind # "code"
           THEN /\ handlers' = [handlers EXCEPT ![h] =
                       [Finished(hr, "nothing") EXCEPT !.mention = v]]
                /\ UNCHANGED underwayCalls
           ELSE IF id = None
           THEN /\ handlers' = [handlers EXCEPT ![h] =
                       [Finished(hr, "unmatched") EXCEPT !.mention = v]]
                /\ UNCHANGED underwayCalls
           ELSE /\ handlers' = [handlers EXCEPT ![h] =
                       [hr EXCEPT !.pc = "underway_post",
                                  !.match = find_match(
                                      tourneys[t].open_matches, members[v])]]
                /\ underwayCalls' = [underwayCalls EXCEPT ![id] = @ + 1]
    /\ UNCHANGED <<tournament_map, tourneys, remote, env, pingCalls,
                   reportCalls, finalizeCalls>>

\* The mark-underway mutation returns, or raises (raise_for_status); the
\* listener ends either way.
UnderwayReturn(h, ok) ==
    /\ handlers[h].pc = "underway_post"
    /\ handlers' = [handlers EXCEPT ![h] =
           [Finished(handlers[h], IF ok THEN "marked"
                                        ELSE "ClientResponseError")
               EXCEPT !.mention = handlers[h].mention,
                      !.match = handlers[h].match]]
    /\ UNCHANGED <<tournament_map, tourneys, remote, env, underwayCalls, pingCalls,
                   reportCalls, finalizeCalls>>

\* A finished handler is gone: its place serves the next command.
Recycle(h) ==
    /\ handlers[h].pc = "done"
    /\ \A id \in MatchIds : reportCalls[id] < MaxCalls
    /\ handlers' = [handlers EXCEPT ![h] = IdleHandler]
    /\ UNCHANGED <<tournament_map, tourneys, remote, env, underwayCalls, pingCalls,
                   reportCalls, finalizeCalls>>

----------------------------------------------------------------------------
(* start                                                                   *)

UrlGood == "https://challonge.com/auto"
UrlBad  == "auto"
Urls    == {UrlGood, UrlBad}

\* challonge.extract_id: the tournament id, or "" for the ValueError of a
\* text that holds no challonge.com/<id>.
extract_id(url) == IF url = UrlGood THEN "auto" ELSE ""

ReplyBang == <<"!">>

\* re.match(r'[a-z0-9]+$', content, re.I), over the characters of replies.
IsApiKey(content) ==
    /\ content # <<>>
    /\ \A i \in DOMAIN content : content[i] \notin {" ", "!"}

\* (defect) start() does not look for a session already registered.
AlreadyRunning_NotChecked(key) == FALSE

\* start(): `self.get_tourney(ctx) is not None`.
AlreadyRunning(key) == get_tourney(key) # None

\* Tournament.has_user over get_players(): missing_tags finds a player
\* with no member of that display name.
has_missing(players) ==
    \E i \in DOMAIN players :
        ~ \E u \in DOMAIN members : istrcmp(members[u], players[i])

\* tourney_start, then the request of get_raw: a new Tournament is stored
\* under the key, whatever was stored there.
Register(h, hr) ==
    /\ tourneys' = Append(tourneys, NewTournament(hr.author))
    /\ tournament_map' =
           [k \in DOMAIN tournament_map \cup {KeyOf(hr.author)} |->
               IF k = KeyOf(hr.author) THEN Len(tourneys) + 1
                                       ELSE tournament_map[k]]
    /\ handlers' = [handlers EXCEPT ![h] =
           [hr EXCEPT !.pc = "start_raw", !.tourney = Len(tourneys) + 1,
                      !.reply = <<>>]]

\* start command, up to its first await: the request for the API key when
\* the configuration holds none, else the fetch of the bracket.
StartInvoke(h, u, url) ==
    /\ CanStart(h)
    /\ LET hr == [Started("start", u) EXCEPT !.tourney = None]
       IN  IF AlreadyRunning(KeyOf(u))
           THEN /\ handlers' = [handlers EXCEPT ![h] =
                                    Finished(hr, "AlreadyRunning")]
                /\ UNCHANGED <<tournament_map, tourneys>>
           ELSE IF extract_id(url) = ""
           THEN /\ handlers' = [handlers EXCEPT ![h] =
                                    Finished(hr, "InvalidBracketUrl")]
                /\ UNCHANGED <<tournament_map, tourneys>>
           ELSE IF config = ""
           THEN /\ handlers' = [handlers EXCEPT ![h] =
                                    [hr EXCEPT !.pc = "start_key_wait"]]
                /\ UNCHANGED <<tournament_map, tourneys>>
           ELSE Register(h, hr)
    /\ UNCHANGED <<remote, env, underwayCalls, pingCalls, reportCalls, finalizeCalls>>

\* ask_for_challonge_key after wait_for: 'no' ends the command, a key goes
\* on to tourney_start, anything else asks again.
StartKeyResume(h) ==
    /\ handlers[h].pc = "start_key_reply"
    /\ LET hr == handlers[h]
           content == Strip(hr.reply)
       IN  IF istrcmp(content, ReplyNo)
           THEN /\ handlers' = [handlers EXCEPT ![h] = Finished(hr, "NoKey")]
                /\ UNCHANGED <<tournament_map, tourneys>>
           ELSE IF IsApiKey(content)
           THEN Register(h, hr)
           ELSE /\ handlers' = [handlers EXCEPT ![h] =
                       [hr EXCEPT !.pc = "start_key_wait", !.reply = <<>>]]
                /\ UNCHANGED <<tournament_map, tourneys>>
    /\ UNCHANGED <<remote, env, underwayCalls, pingCalls, reportCalls, finalizeCalls>>

\* Answers of the bracket service to get_raw's requests.
RawAnswers == {200, 401, 500}

\* get_raw returns or raises, then the state of the bracket is checked and
\* missing_tags run.
StartRawReturn(h, status) ==
    /\ handlers[h].pc = "start_raw"
    /\ LET hr == handlers[h]
       IN  IF status = 401
           THEN StopAndFinish(h, hr, "Unauthorized") /\ UNCHANGED tourneys
           ELSE IF status # 200
           THEN /\ handlers' = [handlers EXCEPT ![h] =
                                    Finished(hr, "ClientResponseError")]
                /\ UNCHANGED <<tournament_map, tourneys>>
           ELSE /\ tourneys' = [tourneys EXCEPT
                       ![hr.tourney].raw_state = remote_state,
                       ![hr.tourney].raw_participants = participants,
                       ![hr.tourney].player_map = set_player_map(participants)]
                /\ IF remote_state = "pending"
                   THEN StopAndFinish(h, hr, "TournamentNotStarted")
                   ELSE IF remote_state = "ended"
                   THEN StopAndFinish(h, hr, "TournamentAlreadyEnded")
                   ELSE /\ handlers' = [handlers EXCEPT ![h] =
                               [hr EXCEPT !.pc =
                                   IF has_missing(get_players(participants))
                                   THEN "start_confirm_wait"
                                   ELSE "start_send"]]
                        /\ UNCHANGED tournament_map
    /\ UNCHANGED <<remote, env, underwayCalls, pingCalls, reportCalls, finalizeCalls>>

\* start() after confirm('Continue anyway?'): a yes runs update_tags (behind
\* has_tourney and is_to, which only send a message when they refuse) on the
\* session has_tourney finds, any other reply stops the session.
StartConfirmResume(h) ==
    /\ handlers[h].pc = "start_confirm_reply"
    /\ LET hr == handlers[h]
           t == get_tourney(KeyOf(hr.author))
       IN  IF ~IsYes(hr.reply)
           THEN StopAndFinish(h, hr, "aborted")
           ELSE /\ handlers' = [handlers EXCEPT ![h] =
                       IF t # None /\ is_to(hr.author, t)
                       THEN [hr EXCEPT !.reply = <<>>, !.tourney = t,
                                       !.pc = "start_update"]
                       ELSE [hr EXCEPT !.reply = <<>>, !.pc = "start_send"]]
                /\ UNCHANGED tournament_map
    /\ UNCHANGED <<tourneys, remote, env, underwayCalls, pingCalls, reportCalls, finalizeCalls>>

\* Challonge.update_data('participants') returns: raw_dict['participants']
\* is what the service lists now; the player map is left as get_raw built it.
update_data_participants(session) ==
    [session EXCEPT !.raw_participants = participants]

\* update_tags, called by start(), returns.
StartUpdateReturn(h) ==
    /\ handlers[h].pc = "start_update"
    /\ tourneys' = [tourneys EXCEPT ![handlers[h].tourney] =
                        update_data_participants(@)]
    /\ handlers' = [handlers EXCEPT ![h] =
                        [handlers[h] EXCEPT !.pc = "start_send"]]
    /\ UNCHANGED <<tournament_map, remote, env, underwayCalls, pingCalls, reportCalls,
                   finalizeCalls>>

\* The presence is set and the start message sent and pinned; matches()
\* follows.
StartSent(h) ==
    /\ handlers[h].pc = "start_send"
    /\ handlers' = [handlers EXCEPT ![h] = EnterMatches(handlers[h])]
    /\ UNCHANGED <<tournament_map, tourneys, remote, env, underwayCalls, pingCalls, reportCalls,
                   finalizeCalls>>

\* update_tags command: has_tourney, is_to, then the participants are
\* fetched again.
UpdateTagsInvoke(h, u) ==
    /\ CanStart(h)
    /\ LET hr == Started("update_tags", u)
       IN  handlers' = [handlers EXCEPT ![h] =
               IF hr.tourney = None THEN Finished(hr, "NoTournament")
               ELSE IF ~is_to(u, hr.tourney) THEN Finished(hr, "NotTO")
               ELSE [hr EXCEPT !.pc = "update_fetch"]]
    /\ UNCHANGED <<tournament_map, tourneys, remote, env, underwayCalls, pingCalls,
                   reportCalls, finalizeCalls>>

\* update_data('participants') returns to update_tags.
UpdateTagsReturn(h) ==
    /\ handlers[h].pc = "update_fetch"
    /\ tourneys' = [tourneys EXCEPT ![handlers[h].tourney] =
                        update_data_participants(@)]
    /\ handlers' = [handlers EXCEPT ![h] = Finished(handlers[h], "updated")]
    /\ UNCHANGED <<tournament_map, remote, env, underwayCalls, pingCalls, reportCalls,
                   finalizeCalls>>

----------------------------------------------------------------------------
(* A running tournament: commands on a started session.                    *)

\* Both matches of the four-player bracket are in winners round 1.
FirstRound == [id \in MatchIds |-> 1]

\* Score strings the players report with in this specification.
ReportScores == {<<"2", "-", "0">>, <<"0", "-", "2">>, <<"1", "-", "1">>}

\* The state start() leaves behind on an underway bracket: the session is
\* registered, its data fetched, the open matches announced.
RunningInit(rosterCasing, mstate) ==
    /\ rounds = FirstRound
    /\ participants = [i \in 1..Cardinality(PlayerIds) |->
            Participant(10 * i, Cased(BaseName(10 * i), rosterCasing), {})]
    /\ members = [u \in Chatters |-> MemberBase(u)]
    /\ config = ""
    /\ remote_state = "underway"
    /\ remote = mstate
    /\ tournament_map = [k \in {Key} |-> 1]
    /\ tourneys = <<[NewTournament("to") EXCEPT
            !.raw_state = "underway",
            !.raw_participants = participants,
            !.player_map = set_player_map(participants),
            !.open_matches = OpenOf(get_matches(mstate,
                                 set_player_map(participants), participants)),
            !.called_matches = {id \in MatchIds : mstate[id] = "open"}]>>
    /\ handlers = [h \in Handlers |-> IdleHandler]
    /\ reportCalls = [id \in MatchIds |-> 0]
    /\ finalizeCalls = 0
    /\ underwayCalls = [id \in MatchIds |-> 0]
    /\ pingCalls = [id \in MatchIds |-> IF mstate[id] = "open" THEN 1 ELSE 0]

Init ==
    \E rc \in Casings, m2 \in {"open", "complete"} :
        RunningInit(rc, [id \in MatchIds |-> IF id = 1 THEN "open" ELSE m2])

Next ==
    \/ \E h \in Handlers, u \in Members, s \in ReportScores : ReportInvoke(h, u, s)
    \/ \E h \in Handlers : ReportAddRecent(h)
    \/ \E h \in Handlers : ReportSleepDone(h)
    \/ \E h \in Handlers : ReportPutReturn(h)
    \/ \E h \in Handlers : ReportPutFails(h)
    \/ \E h \in Handlers, u \in Members : MatchesInvoke(h, u)
    \/ \E h \in Handlers : MatchesServed(h)
    \/ \E h \in Handlers : MatchesReturn(h)
    \/ \E u \in Members, c \in Replies : DirectMessage(u, c)
    \/ \E h \in Handlers : ConfirmResume(h)
    \/ \E h \in Handlers, st \in FinalizeAnswers : FinalizeReturn(h, st)
    \/ \E h \in Handlers : Top8Return(h)
    \/ \E h \in Handlers : ResultsSent(h)
    \/ \E h \in Handlers, u \in Members : StopInvoke(h, u)

Spec == Init /\ [][Next]_vars

----------------------------------------------------------------------------
(* Reports, refreshes and channel messages, one command after another.     *)

\* Score strings of this specification: a win, a tie, and no score.
FewScores == {<<"2", "-", "0">>, <<"1", "-", "1">>, <<"x">>}

ReportNext ==
    \/ \E h \in Handlers, u \in Members, s \in FewScores : ReportInvoke(h, u, s)
    \/ \E h \in Handlers : ReportAddRecent(h)
    \/ \E h \in Handlers : ReportSleepDone(h)
    \/ \E h \in Handlers : ReportPutReturn(h)
    \/ \E h \in Handlers : ReportPutFails(h)
    \/ \E h \in Handlers : MatchesServed(h)
    \/ \E h \in Handlers : MatchesReturn(h)
    \/ \E h \in Handlers : Recycle(h)

SpecReport == Init /\ [][ReportNext]_vars

----------------------------------------------------------------------------
(* Reports and refreshes that interleave.                                  *)

\* The players of match 1.
Reporters == {"ua", "ub"}

WinScore == <<"2", "-", "0">>

RefreshNext ==
    \/ \E h \in Handlers, u \in Reporters : ReportInvoke(h, u, WinScore)
    \/ \E h \in Handlers : ReportAddRecent(h)
    \/ \E h \in Handlers : ReportSleepDone(h)
    \/ \E h \in Handlers : ReportPutReturn(h)
    \/ \E h \in Handlers : ReportPutFails(h)
    \/ \E h \in Handlers : MatchesInvoke(h, "to")
    \/ \E h \in Handlers : MatchesServed(h)
    \/ \E h \in Handlers : MatchesReturn(h)

SpecRefresh == Init /\ [][RefreshNext]_vars

\* asyncio.sleep returns once the delay is over and the event loop resumes
\* the handler: no report handler sleeps forever.
SleepFairness == \A h \in Handlers : WF_vars(ReportSleepDone(h))

SpecThrottle == Init /\ [][RefreshNext]_vars /\ SleepFairness

----------------------------------------------------------------------------
(* Messages in the channel while the matches are refreshed.                *)

\* Who writes, and whom the message mentions.
Writers == {"ua", "to"}
Mentioned == {"ub", "uc", "to"}

UnderwayNext ==
    \/ \E h \in Handlers, u \in Writers, v \in Mentioned, k \in MessageKinds :
           OnMessage(h, u, v, k)
    \/ \E h \in Handlers, ok \in BOOLEAN : UnderwayReturn(h, ok)
    \/ \E h \in Handlers : MatchesInvoke(h, "to")
    \/ \E h \in Handlers : MatchesServed(h)
    \/ \E h \in Handlers : MatchesReturn(h)

SpecUnderway == Init /\ [][UnderwayNext]_vars

----------------------------------------------------------------------------
(* Brackets of every size: the matches command names the rounds.           *)

\* Names of the participants: the four above, then P5, P6, ...
PlayerName(i) == IF i <= 4 THEN BaseName(10 * i) ELSE <<"P">> \o Format(i)

\* The round indexes round_name is written for in a bracket of n players:
\* winners rounds 1..num_winners_rounds, losers rounds -1..-num_losers_rounds.
RoundsIn(n) ==
    IF RoundNameRaises(n) THEN {1}
    ELSE (1..num_winners_rounds(n))
             \cup {-k : k \in 1..num_losers_rounds(n)}

\* A session just started on an underway bracket of n participants, ids 10,
\* 20, ...; match 1 is in any round of the bracket, match 2 in round 1.
RoundInit ==
    \E n \in 0..MaxPlayers : \E r \in RoundsIn(n) :
        /\ rounds = [id \in MatchIds |-> IF id = 1 THEN r ELSE 1]
        /\ participants = [i \in 1..n |->
                               Participant(10 * i, PlayerName(i), {})]
        /\ members = [u \in Chatters |-> MemberBase(u)]
        /\ config = ""
        /\ remote_state = "underway"
        /\ remote = [id \in MatchIds |-> "open"]
        /\ tournament_map = [k \in {Key} |-> 1]
        /\ tourneys = <<[NewTournament("to") EXCEPT
                !.raw_state = "underway",
                !.raw_participants = participants,
                !.player_map = set_player_map(participants)]>>
        /\ handlers = [h \in Handlers |-> IdleHandler]
        /\ reportCalls = [id \in MatchIds |-> 0]
        /\ finalizeCalls = 0
        /\ underwayCalls = [id \in MatchIds |-> 0]
        /\ pingCalls = [id \in MatchIds |-> 0]

RoundNext ==
    \/ \E h \in Handlers : MatchesInvoke(h, "to")
    \/ \E h \in Handlers : MatchesServed(h)
    \/ \E h \in Handlers : MatchesReturn(h)

SpecRounds == RoundInit /\ [][RoundNext]_vars

----------------------------------------------------------------------------
(* One report, with every score string up to MaxScoreLen.                  *)

ScoreStrings == StringsUpTo(ScoreChars, MaxScoreLen)

\* The handler that serves the report: the first one.
ScoreHandler == CHOOSE h \in Handlers : \A g \in Handlers : h <= g

ScoreInit == \E rc \in Casings : RunningInit(rc, [id \in MatchIds |-> "open"])

ScoreNext ==
    \/ \E u \in Members, s \in ScoreStrings : ReportInvoke(ScoreHandler, u, s)
    \/ ReportAddRecent(ScoreHandler)
    \/ ReportSleepDone(ScoreHandler)
    \/ ReportPutReturn(ScoreHandler)
    \/ ReportPutFails(ScoreHandler)
    \/ MatchesServed(ScoreHandler)
    \/ MatchesReturn(ScoreHandler)

SpecScore == ScoreInit /\ [][ScoreNext]_vars

----------------------------------------------------------------------------
(* Starting a tournament: start and stop commands from an empty registry.  *)

\* Members that run start and stop here.
Organizers == {"to", "ua"}

StartReplies == {ReplyNo, ReplyY, ReplyBang}

\* Members of the community besides those that issue commands: the accounts
\* of Carol and Dave, when they have joined.
Guilds == {Members, Members \cup {"uc", "ud"}}

StartInit ==
    \E ts \in {"pending", "underway", "ended"}, ms \in {"open", "complete"},
       key \in {"", "k"}, guild \in Guilds :
        /\ participants = [i \in 1..Cardinality(PlayerIds) |->
                               Participant(10 * i, BaseName(10 * i), {})]
        /\ members = [u \in guild |-> MemberBase(u)]
        /\ config = key
        /\ remote_state = ts
        /\ remote = [id \in MatchIds |-> ms]
        /\ tournament_map = <<>>
        /\ tourneys = <<>>
        /\ handlers = [h \in Handlers |-> IdleHandler]
        /\ reportCalls = [id \in MatchIds |-> 0]
        /\ finalizeCalls = 0
        /\ rounds = FirstRound
        /\ underwayCalls = [id \in MatchIds |-> 0]
        /\ pingCalls = [id \in MatchIds |-> 0]

StartNext ==
    \/ \E h \in Handlers, u \in Organizers, url \in Urls : StartInvoke(h, u, url)
    \/ \E u \in Organizers, c \in StartReplies : DirectMessage(u, c)
    \/ \E h \in Handlers : StartKeyResume(h)
    \/ \E h \in Handlers, st \in RawAnswers : StartRawReturn(h, st)
    \/ \E h \in Handlers : StartConfirmResume(h)
    \/ \E h \in Handlers : StartUpdateReturn(h)
    \/ \E h \in Handlers : StartSent(h)
    \/ \E h \in Handlers : MatchesServed(h)
    \/ \E h \in Handlers : MatchesReturn(h)
    \/ \E h \in Handlers : ConfirmResume(h)
    \/ \E h \in Handlers, st \in FinalizeAnswers : FinalizeReturn(h, st)
    \/ \E h \in Handlers : Top8Return(h)
    \/ \E h \in Handlers : ResultsSent(h)
    \/ \E h \in Handlers, u \in Organizers : StopInvoke(h, u)

SpecStart == StartInit /\ [][StartNext]_vars

----------------------------------------------------------------------------
(* The participants change on the bracket service while the session runs.  *)

\* The tag the first participant changes the name to.
NameAl == <<"A", "l">>

\* Most participants the bracket has once late entrants have joined.
MaxRoster == 5

\* The bracket service: the first participant takes a new name.
ServiceRename ==
    /\ participants # <<>>
    /\ participants[1].name # NameAl
    /\ participants' = [participants EXCEPT ![1].name = NameAl]
    /\ UNCHANGED <<tournament_map, tourneys, handlers, remote, remote_state,
                   members, config, rounds, underwayCalls, pingCalls, reportCalls,
                   finalizeCalls>>

\* The bracket service: one more participant is listed, who plays none of
\* the matches that are there.
ServiceJoin ==
    /\ Len(participants) < MaxRoster
    /\ participants' = Append(participants,
           Participant(10 * (Len(participants) + 1),
                       PlayerName(Len(participants) + 1), {}))
    /\ UNCHANGED <<tournament_map, tourneys, handlers, remote, remote_state,
                   members, config, rounds, underwayCalls, pingCalls, reportCalls,
                   finalizeCalls>>

\* Members that ask for the tags to be updated: the organizer, and a player
\* who is refused.
Taggers == {"to", "ua"}

TagsInit == RunningInit("capital", [id \in MatchIds |-> "open"])

TagsNext ==
    \/ ServiceRename
    \/ ServiceJoin
    \/ \E h \in Handlers, u \in Taggers : UpdateTagsInvoke(h, u)
    \/ \E h \in Handlers : UpdateTagsReturn(h)
    \/ \E h \in Handlers : MatchesInvoke(h, "to")
    \/ \E h \in Handlers : MatchesServed(h)
    \/ \E h \in Handlers : MatchesReturn(h)

SpecTags == TagsInit /\ [][TagsNext]_vars

----------------------------------------------------------------------------
(* The player map of brackets with a group stage.                          *)

\* Participant lists of a two-player bracket with a group stage.  The alias
\* ids a participant may be listed with: ids of its own, one that both
\* share, and the primary id of the other participant.
DirectoryLists ==
    {<<Participant(10, NameAlice, a1), Participant(20, NameBob, a2)>> :
        a1 \in SUBSET {11, 12, 20}, a2 \in SUBSET {21, 12, 10}}

\* Nothing is registered; the bracket is underway, the API key configured.
DirectoryInit ==
    /\ participants \in DirectoryLists
    /\ members = [u \in Chatters |-> MemberBase(u)]
    /\ config = "k"
    /\ remote_state = "underway"
    /\ remote = [id \in MatchIds |-> "open"]
    /\ tournament_map = <<>>
    /\ tourneys = <<>>
    /\ handlers = [h \in Handlers |-> IdleHandler]
    /\ reportCalls = [id \in MatchIds |-> 0]
    /\ finalizeCalls = 0
    /\ rounds = FirstRound
    /\ underwayCalls = [id \in MatchIds |-> 0]
    /\ pingCalls = [id \in MatchIds |-> 0]

DirectoryNext ==
    \/ \E h \in Handlers : StartInvoke(h, "to", UrlGood)
    \/ \E h \in Handlers, st \in RawAnswers : StartRawReturn(h, st)
    \/ \E h \in Handlers : StartSent(h)
    \/ \E h \in Handlers : MatchesServed(h)
    \/ \E h \in Handlers : MatchesReturn(h)

SpecDirectory == DirectoryInit /\ [][DirectoryNext]_vars

----------------------------------------------------------------------------
(* The end of a tournament: the last report, the confirmation, the         *)
(* standings.                                                              *)

\* Members that are asked to confirm: the organizer after `matches`, the
\* reporter after the last report.
Closers == {"to", "ua"}

\* Match 1 is the last open match of the running session, or it is complete
\* as well (a confirmation has been declined before).
CloseInit ==
    \E last \in {"open", "complete"} :
        RunningInit("capital",
            [id \in MatchIds |-> IF id = 1 THEN last ELSE "complete"])

CloseNext ==
    \/ \E h \in Handlers : ReportInvoke(h, "ua", WinScore)
    \/ \E h \in Handlers : ReportAddRecent(h)
    \/ \E h \in Handlers : ReportSleepDone(h)
    \/ \E h \in Handlers : ReportPutReturn(h)
    \/ \E h \in Handlers : ReportPutFails(h)
    \/ \E h \in Handlers : MatchesInvoke(h, "to")
    \/ \E h \in Handlers : MatchesServed(h)
    \/ \E h \in Handlers : MatchesReturn(h)
    \/ \E u \in Closers, c \in {ReplyY, ReplyNo} : DirectMessage(u, c)
    \/ \E h \in Handlers : ConfirmResume(h)
    \/ \E h \in Handlers, st \in FinalizeAnswers : FinalizeReturn(h, st)
    \/ \E h \in Handlers : Top8Return(h)
    \/ \E h \in Handlers : ResultsSent(h)

\* The event loop resumes a coroutine whose request has been answered, and
\* the bracket service and the channel answer every request of results():
\* a handler in results() is not left waiting forever.
CloseFairness ==
    \A h \in Handlers : WF_vars(Top8Return(h)) /\ WF_vars(ResultsSent(h))

SpecClose == CloseInit /\ [][CloseNext]_vars /\ CloseFairness


\* The report of the handler has passed every check and is on its way to
\* the bracket service.
Accepted(hr) == hr.pc \in {"report_typing", "report_sleep", "report_put"}

\* The submitted string is two integers with a hyphen between them.
TwoScores(s) == Len(Split(s)) = 2 /\ ScoresParse(s)

\* The reporter's slot, from the match the report was resolved to.
ReporterIsPlayer1(hr) == istrcmp(members[hr.author], hr.match.player1)

\* C9: for every accepted report "a-b", reporter's own score first, the
\* winner id sent is the reporter's participant id when a > b and the
\* opponent's when a < b, whichever slot the reporter occupies.
C9_WinnerId ==
    \A h \in Handlers :
        LET hr == handlers[h]
            a == IntOf(Split(hr.submitted)[1])
            b == IntOf(Split(hr.submitted)[2])
            mine == IF ReporterIsPlayer1(hr) THEN hr.match.player1_id
                                             ELSE hr.match.player2_id
            theirs == IF ReporterIsPlayer1(hr) THEN hr.match.player2_id
                                               ELSE hr.match.player1_id
        IN  Accepted(hr) /\ TwoScores(hr.submitted) =>
                /\ a # b
                /\ hr.winner_id = IF a > b THEN mine ELSE theirs

\* Bob (id 20, player2) has reported "1-3" against Alice (id 10, player1)
\* and the mutation names Alice as the winner.
C9_Witness ==
    \E h \in Handlers :
        /\ handlers[h].pc = "report_put"
        /\ handlers[h].author = "ub"
        /\ handlers[h].submitted = <<"1", "-", "3">>
        /\ handlers[h].match.player1_id = 10
        /\ handlers[h].winner_id = 10

\* C10: for every score string that passes validation, whatever the number
\* of digits, the string sent is player1's score, a hyphen, player2's score:
\* the submitted string for a reporter in the player1 slot, its two integer
\* halves swapped for a reporter in the player2 slot.
C10_ScoreOrder ==
    \A h \in Handlers :
        LET hr == handlers[h]
            parts == Split(hr.submitted)
        IN  Accepted(hr) /\ TwoScores(hr.submitted) =>
                hr.scores_csv = IF ReporterIsPlayer1(hr)
                                THEN hr.submitted
                                ELSE parts[2] \o <<"-">> \o parts[1]

\* A report command starts in this step and its score passes the checks made
\* before the throttle check (it is not answered MalformedScore or TiedScore
\* and does not stop on a ValueError).
ReportReachesThrottleCheck(h) ==
    /\ handlers[h].pc = "idle"
    /\ handlers'[h].cmd = "report"
    /\ get_tourney(Key) # None
    /\ handlers'[h].result \notin {"MalformedScore", "ValueError", "TiedScore"}

\* C1: when the two players of one open match both report and the second
\* report's throttle check runs while the exclusion delay started by the first
\* is still running, the second report is answered Throttled and goes no
\* further (no second report mutation), whatever the display names.
C1_SecondReportThrottled ==
    [][\A h1, h2 \in Handlers :
          (/\ handlers[h1].pc = "report_sleep"
           /\ ReportReachesThrottleCheck(h2)
           /\ istrcmp(members[handlers'[h2].author], handlers[h1].other))
          => (handlers'[h2].pc = "done" /\ handlers'[h2].result = "Throttled")
      ]_vars

\* C2: while a handler's report mutation is in flight, the exclusion-set
\* entry that handler created is present.
C2_EntryPresentDuringCall ==
    \A h \in Handlers :
        handlers[h].pc = "report_put" =>
            handlers[h].other \in tourneys[handlers[h].tourney].recently_called

\* C3: a report whose reporter's display name equals, ignoring case, a name
\* in the exclusion set is answered Throttled, for names with upper-case
\* letters as for all-lower-case names.
C3_ThrottledIgnoringCase ==
    [][\A h \in Handlers :
          (/\ ReportReachesThrottleCheck(h)
           /\ \E n \in tourneys[get_tourney(Key)].recently_called :
                  istrcmp(n, members[handlers'[h].author]))
          => (handlers'[h].pc = "done" /\ handlers'[h].result = "Throttled")
      ]_vars

\* C7: the finalize mutation is sent only on an affirmative confirmation by
\* the session owner: the member whose yes a handler acted on when it sent
\* finalize is the owner of the handler's session.
C7_FinalizeOnlyByOwner ==
    \A h \in Handlers :
        handlers[h].pc = "finalize_put" =>
            ConfirmAsked(handlers[h]) = tourneys[handlers[h].tourney].owner

\* C8: a finalize mutation answered 422 (already finalized) counts as
\* success: no handler ends with that error.
C8_AlreadyFinalizedIsSuccess ==
    \A h \in Handlers : handlers[h].result # "ClientResponseError422"

\* The handler that takes the step.
Acts(h) == handlers'[h] # handlers[h]

\* C4: whatever the interleaving of start commands on one key, a session
\* once registered is never replaced or removed by another start command: a
\* step that changes the key's entry is not a step of a start command, unless
\* it is the start that created the session removing its own.
C4_StartNeverReplaces ==
    [][\A k \in DOMAIN tournament_map :
          (k \notin DOMAIN tournament_map' \/ tournament_map'[k] # tournament_map[k])
          => \A h \in Handlers :
                 Acts(h) /\ handlers'[h].cmd = "start"
                 => handlers[h].tourney = tournament_map[k]
      ]_vars

\* C5: a start command on a key with a registered session is answered
\* AlreadyRunning: it calls the bracket service for nothing, and the
\* registry, the session (open matches, called set, exclusion set) and the
\* bracket stay as they are.
C5_StartOnRegisteredKey ==
    [][\A h \in Handlers :
          (/\ handlers[h].pc = "idle"
           /\ handlers'[h].cmd = "start"
           /\ Key \in DOMAIN tournament_map)
          => /\ handlers'[h].pc = "done"
             /\ handlers'[h].result = "AlreadyRunning"
             /\ UNCHANGED <<tournament_map, tourneys, remote, reportCalls,
                            finalizeCalls>>
      ]_vars

\* A start was answered AlreadyRunning and the session is still registered.
C5_Witness ==
    \E h \in Handlers :
        /\ handlers[h].cmd = "start"
        /\ handlers[h].result = "AlreadyRunning"
        /\ Key \in DOMAIN tournament_map

\* C6: a session the registry returns belongs to a bracket already fetched
\* and validated as active (state neither pending nor ended).
C6_RegisteredIsValidated ==
    \A k \in DOMAIN tournament_map :
        tourneys[tournament_map[k]].raw_state \notin {"", "pending", "ended"}

\* A report command starts in this step on a registered session.
ReportStarts(h) ==
    /\ handlers[h].pc = "idle"
    /\ handlers'[h].cmd = "report"
    /\ get_tourney(Key) # None

\* C11: a report is answered MalformedScore exactly when its score string is
\* not of the form <int>-<int>: a string of that form with unequal integers,
\* of any number of digits, passes validation, and every other string gets
\* that one answer and no unhandled error.
C11_MalformedExactly ==
    [][\A h \in Handlers :
          ReportStarts(h) =>
              LET s == handlers'[h].submitted
                  r == handlers'[h].result
              IN  /\ (TwoScores(s) /\ Scores(s)[1] # Scores(s)[2])
                        => r \notin {"MalformedScore", "ValueError"}
                  /\ ~TwoScores(s) => r = "MalformedScore"
      ]_vars

\* The ids of the matches of a list.
IdsOf(matches) == {matches[i].id : i \in DOMAIN matches}

\* The refresh of the handler returns in this step, without an error.
RefreshReturns(h) ==
    /\ handlers[h].pc = "matches_resp"
    /\ handlers'[h].pc # "matches_resp"
    /\ handlers'[h].result \notin {"TypeError", "ValueError"}

\* C12: when a report succeeds (the mutation has returned and the handler
\* goes on) the reported match id is not in the called set; and when the
\* refresh that follows fetched a list in which that match is not open, the
\* open-match list it leaves does not hold the id.
C12_AfterReport ==
    [][\A h \in Handlers :
          LET hr == handlers[h]
              id == hr.match.id
          IN  /\ (hr.pc = "report_put" /\ handlers'[h].pc = "matches_fetch")
                    => id \notin tourneys'[hr.tourney].called_matches
              /\ (hr.cmd = "report" /\ RefreshReturns(h)
                                    /\ hr.fetched[id] # "open")
                    => id \notin IdsOf(tourneys'[hr.tourney].open_matches)
      ]_vars

\* A report of match 1 has gone through, refresh included: the id is in
\* neither the called set nor the open-match list.
C12_Witness ==
    \E h \in Handlers :
        /\ handlers[h].cmd = "report"
        /\ handlers[h].result = "announced"
        /\ reportCalls[1] = 1
        /\ 1 \notin tourneys[1].called_matches
        /\ 1 \notin IdsOf(tourneys[1].open_matches)

\* The answers with which a report is rejected.
Rejections == {"MalformedScore", "TiedScore", "Throttled", "NoActiveMatch"}

\* C13: a rejected report calls the bracket service for nothing and leaves
\* the open-match list, the called set and the exclusion set as they are;
\* and a reporter whose name is in the exclusion set and who is in no open
\* match is answered Throttled, not NoActiveMatch.
C13_RejectedReportFrame ==
    [][\A h \in Handlers :
          ReportStarts(h) =>
              LET s == handlers'[h].submitted
                  r == handlers'[h].result
                  name == members[handlers'[h].author]
                  t == get_tourney(Key)
              IN  /\ r \in Rejections =>
                        /\ handlers'[h].pc = "done"
                        /\ UNCHANGED <<tournament_map, tourneys, remote,
                                       reportCalls, finalizeCalls,
                                       underwayCalls>>
                  /\ (/\ TwoScores(s)
                      /\ Scores(s)[1] # Scores(s)[2]
                      /\ \E n \in tourneys[t].recently_called :
                             istrcmp(n, name)
                      /\ find_match(tourneys[t].open_matches, name) = NoMatch)
                        => r = "Throttled"
      ]_vars

\* C14: when the report mutation fails, the error ends the command, no
\* second mutation is sent, the session stays registered, and the match id
\* is still in the called set and in the open-match list.
C14_FailedReportKeepsMatch ==
    [][\A h \in Handlers :
          (handlers[h].pc = "report_put" /\ handlers'[h].pc = "done"
              /\ handlers'[h].result = "ClientResponseError")
          => LET t == handlers[h].tourney
                 id == handlers[h].match.id
             IN  /\ reportCalls' = reportCalls
                 /\ tournament_map' = tournament_map
                 /\ Key \in DOMAIN tournament_map'
                 /\ id \in tourneys'[t].called_matches
                 /\ id \in IdsOf(tourneys'[t].open_matches)
      ]_vars

\* The open matches that hold the name in one of their slots, ignoring case.
ResolvesTo(open_matches, name) ==
    {open_matches[i].id : i \in
        {j \in DOMAIN open_matches :
            \/ istrcmp(name, open_matches[j].player1)
            \/ istrcmp(name, open_matches[j].player2)}}

\* C15: mark_match_underway sends the mark-underway mutation only when both
\* display names are in one and the same open match, and then once, for that
\* match; otherwise it sends nothing and raises nothing; the open-match list,
\* the called set and the exclusion set stay as they are in every case.
C15_MarkUnderway ==
    [][\A h \in Handlers :
          /\ (/\ handlers[h].pc = "idle"
              /\ handlers'[h].cmd = "message"
              /\ handlers'[h].result \notin {"NoTournament", "nothing"})
             => LET open == tourneys[get_tourney(Key)].open_matches
                    r1 == ResolvesTo(open, members[handlers'[h].mention])
                    r2 == ResolvesTo(open, members[handlers'[h].author])
                IN  /\ tourneys' = tourneys
                    /\ IF r1 # {} /\ r1 = r2
                       THEN \E id \in r1 :
                               underwayCalls' =
                                   [underwayCalls EXCEPT ![id] = @ + 1]
                       ELSE /\ underwayCalls' = underwayCalls
                            /\ handlers'[h].pc = "done"
                            /\ handlers'[h].result = "unmatched"
          /\ (handlers[h].pc = "underway_post" /\ Acts(h))
             => underwayCalls' = underwayCalls /\ tourneys' = tourneys
      ]_vars

\* Alice has posted a code for Bob and match 1 was marked, once; and she has
\* posted one for Carol, of the other open match, and nothing was sent.
C15_Witness ==
    \E h1, h2 \in Handlers :
        /\ handlers[h1].result = "marked"
        /\ handlers[h1].mention = "ub"
        /\ handlers[h2].result = "unmatched"
        /\ handlers[h2].mention = "uc"
        /\ 2 \in IdsOf(tourneys[1].open_matches)
        /\ underwayCalls = [id \in MatchIds |-> IF id = 1 THEN 1 ELSE 0]

\* C16: a refresh replaces the open-match list with exactly the fetched
\* matches that are open, once each, and changes neither the called set nor
\* the exclusion set.
C16_RefreshReplaces ==
    [][\A h \in Handlers :
          RefreshReturns(h) =>
              LET before == tourneys[handlers[h].tourney]
                  after == tourneys'[handlers[h].tourney]
                  fetched == handlers[h].fetched
                  refreshed == get_open_matches(before, fetched)
                  expected == {id \in MatchIds :
                                  HasPlayers(id) /\ fetched[id] = "open"}
              IN  /\ after.open_matches = refreshed.open_matches
                  /\ IdsOf(after.open_matches) = expected
                  /\ Len(after.open_matches) = Cardinality(expected)
                  /\ refreshed.called_matches = before.called_matches
                  /\ refreshed.recently_called = before.recently_called
                  /\ after.recently_called = before.recently_called
      ]_vars

\* A refresh has dropped match 1, reported in the meantime, from the list.
C16_Witness ==
    \E h \in Handlers :
        /\ handlers[h].cmd = "matches"
        /\ handlers[h].result = "announced"
        /\ remote[1] = "complete"
        /\ IdsOf(tourneys[1].open_matches) = {2}

\* The label the session holds for an open match of round r, in the bracket
\* of n players, is the given one: the refresh has named that round so.
Labelled(n, r, label) ==
    \A i \in DOMAIN tourneys[1].open_matches :
        LET m == tourneys[1].open_matches[i]
        IN  (NumPlayers(tourneys[1].raw_participants) = n /\ rounds[m.id] = r)
                => m.round = label

\* The session holds an open match of round r, named by a refresh, in the
\* bracket of n players.
HasLabelled(n, r) ==
    /\ NumPlayers(tourneys[1].raw_participants) = n
    /\ \E i \in DOMAIN tourneys[1].open_matches :
           rounds[tourneys[1].open_matches[i].id] = r

\* C17 as stated: with 8 players winners_rounds is 4 and rounds 4, 3, 2, 1
\* and -1 are named GF, WF, WSF, WR1 and LR1.
C17_EightPlayers ==
    /\ num_winners_rounds(8) = 4
    /\ Labelled(8, 4, <<"G", "F">>)
    /\ Labelled(8, 3, <<"W", "F">>)
    /\ Labelled(8, 2, <<"W", "S", "F">>)
    /\ Labelled(8, 1, <<"W", "R", "1">>)
    /\ Labelled(8, -1, <<"L", "R", "1">>)

\* C17, amended: with 8 players winners_rounds is 4 and rounds 4, 3, 2, 1
\* and -1 are named GF, WF, WSF, WQF and LR1 (round 1 is winners_rounds - 3,
\* the quarter-final tier).
C17_EightPlayersAmended ==
    /\ num_winners_rounds(8) = 4
    /\ Labelled(8, 4, <<"G", "F">>)
    /\ Labelled(8, 3, <<"W", "F">>)
    /\ Labelled(8, 2, <<"W", "S", "F">>)
    /\ Labelled(8, 1, <<"W", "Q", "F">>)
    /\ Labelled(8, -1, <<"L", "R", "1">>)

\* A refresh has named round 1 of the 8-player bracket.
C17_Witness ==
    /\ HasLabelled(8, 1)
    /\ tourneys[1].open_matches[1].round = <<"W", "Q", "F">>

\* C18 as stated: with 4 players losers_rounds is one less than
\* num_losers_rounds gives, and round -1 is named in the F tier.
C18_FourPlayers ==
    /\ LosersRoundsUsed(4) = num_losers_rounds(4) - 1
    /\ Labelled(4, -1, <<"L", "F">>)

\* C18, amended: with 4 players losers_rounds is one less than
\* num_losers_rounds gives, and round -1 is named in the SF tier (LSF), not
\* the R1 tier; the F tier is round -2.
C18_FourPlayersAmended ==
    /\ LosersRoundsUsed(4) = num_losers_rounds(4) - 1
    /\ Labelled(4, -1, <<"L", "S", "F">>)
    /\ Labelled(4, -2, <<"L", "F">>)

\* A refresh has named round -1 of the 4-player bracket.
C18_Witness ==
    /\ HasLabelled(4, -1)
    /\ tourneys[1].open_matches[1].round = <<"L", "S", "F">>

\* n is an exact power of two.
IsPowerOfTwo(n) == \E k \in 0..n : 2^k = n

\* C19: in a bracket of 2 players or more, the losers_rounds with which the
\* rounds are named is ceil(log2(n)) + ceil(log2(log2(n))), less one exactly
\* when n is a power of two.
C19_LosersRounds ==
    LET n == NumPlayers(tourneys[1].raw_participants)
    IN  (n >= 2 /\ tourneys[1].open_matches # <<>>) =>
            LosersRoundsUsed(n) =
                CeilLog2(n) + CeilLogLog2(n)
                    - (IF IsPowerOfTwo(n) THEN 1 ELSE 0)

\* C20: with no or one participant round_name gives no label but fails, and
\* that failure is how a refresh of the matches of such a bracket ends.
C20_SmallBracketFails ==
    /\ \A n \in 0..1 : RoundNameRaises(n)
    /\ \A h \in Handlers :
           (/\ handlers[h].cmd = "matches"
            /\ handlers[h].pc \notin {"matches_fetch", "matches_resp"}
            /\ NumPlayers(tourneys[1].raw_participants) <= 1)
           => handlers[h].result = "ValueError"

----------------------------------------------------------------------------
(* The player map and the refreshed participants.                          *)

\* The primary ids of a participant list.
PrimaryIds(raw_participants) ==
    {raw_participants[i].id : i \in DOMAIN raw_participants}

\* C21: in the player map built from a participant list, every primary id
\* resolves to the name of its own participant, even when another
\* participant lists that id among its alias ids; every alias id that is
\* not a primary id resolves to the name of a participant listing it; so a
\* participant with a primary id and two alias ids has all three resolve to
\* its name.
C21_DirectoryResolves ==
    \A t \in DOMAIN tourneys :
        ~PlayerMapIsNone(tourneys[t]) =>
            LET raw == tourneys[t].raw_participants
                player_map == tourneys[t].player_map
            IN  \A i \in DOMAIN raw :
                    /\ player_map[raw[i].id] = Strip(raw[i].name)
                    /\ \A a \in raw[i].group_player_ids \ PrimaryIds(raw) :
                           \E j \in DOMAIN raw :
                               /\ a \in raw[j].group_player_ids
                               /\ player_map[a] = Strip(raw[j].name)

\* The number of participants get_raw fetched: the brackets of TagsInit have
\* no alias ids, and nothing rebuilds the player map once get_raw built it.
InitialCount(session) == Cardinality(DOMAIN session.player_map)

\* C24: the round labels of a session's matches are computed from the
\* number of participants of the initial fetch, also after update_tags has
\* fetched a participant list of another size.
C24_CountFixedAtStart ==
    \A t \in DOMAIN tourneys :
        \A i \in DOMAIN tourneys[t].open_matches :
            LET m == tourneys[t].open_matches[i]
            IN  m.round = round_name(rounds[m.id], InitialCount(tourneys[t]))

\* The name a participant list gives for an id.
NameIn(raw_participants, id) ==
    LET i == CHOOSE i \in DOMAIN raw_participants :
                 raw_participants[i].id = id
    IN  Strip(raw_participants[i].name)

\* C25: the player names of the matches a refresh returns are those of the
\* participant list as the session fetched it last.
C25_NamesOfLastFetch ==
    [][\A h \in Handlers :
          RefreshReturns(h) =>
              LET t == handlers[h].tourney
                  raw == tourneys'[t].raw_participants
              IN  \A i \in DOMAIN tourneys'[t].open_matches :
                      LET m == tourneys'[t].open_matches[i]
                      IN  /\ m.player1 = NameIn(raw, m.player1_id)
                          /\ m.player2 = NameIn(raw, m.player2_id)]_vars

\* C22: while the bracket service never reopens a match, the players of a
\* match are pinged in at most one announcement.
C22_PingedOnce == \A id \in MatchIds : pingCalls[id] <= 1

ExclusionNames == {Cased(BaseName(pid), c) : pid \in PlayerIds, c \in Casings}

\* The handler runs a report that has not ended.
ReportInProgress(h) ==
    handlers[h].cmd = "report" /\ handlers[h].pc \notin {"idle", "done"}

\* C26: a name that is in the exclusion set is eventually out of it again,
\* whether the report mutations succeed or fail and however the handlers
\* interleave; and while no report is in progress the exclusion set is
\* empty.
C26_ExclusionEnds ==
    /\ \A n \in ExclusionNames :
           (n \in tourneys[1].recently_called)
               ~> (n \notin tourneys[1].recently_called)
    /\ []((\A h \in Handlers : ~ReportInProgress(h))
              => tourneys[1].recently_called = {})

\* A report has put a name into the exclusion set and taken it out again;
\* its mutation has failed.
C26_Witness ==
    /\ tourneys[1].recently_called = {}
    /\ \A h \in Handlers : ~ReportInProgress(h)
    /\ \E h \in Handlers : /\ handlers[h].cmd = "report"
                           /\ handlers[h].result = "ClientResponseError"

\* C27: the bracket service receives at most one report mutation per match,
\* over every interleaving of report commands.
C27_OneReportPerMatch == \A id \in MatchIds : reportCalls[id] <= 1

\* C28: whenever a report mutation returns successfully, the id of the match
\* is in the called set, the removal does not fail and the handler goes on
\* to the refresh.
C28_RemovalNeverFails ==
    [][\A h \in Handlers :
          (/\ handlers[h].pc = "report_put"
           /\ handlers'[h].pc # "report_put"
           /\ handlers'[h].result # "ClientResponseError")
          => /\ handlers[h].match.id
                    \in tourneys[handlers[h].tourney].called_matches
             /\ handlers'[h].pc = "matches_fetch"]_vars

\* The step of the handler calls tourney_stop(ctx): in start() when the
\* validation rejects the bracket or the organizer does not go on, in
\* results() after the standings.
RemovalStep(h) ==
    /\ handlers[h].pc \in {"start_raw", "start_confirm_reply", "results_send"}
    /\ handlers'[h].pc = "done"
    /\ tournament_map' # tournament_map \/ handlers'[h].result = "KeyError"

\* C29: every removal from the registry finds the key registered and removes
\* the session the command was operating on.
C29_RemovesOwnSession ==
    [][\A h \in Handlers :
          RemovalStep(h)
          => /\ KeyOf(handlers[h].author) \in DOMAIN tournament_map
             /\ tournament_map[KeyOf(handlers[h].author)]
                    = handlers[h].tourney]_vars

\* The handlers that have posted the standings.
Posted == {h \in Handlers : \/ handlers[h].pc = "results_send"
                            \/ handlers[h].result = "closed"}

\* C30: for one session the finalize mutation is sent at most once and the
\* standings are posted at most once.
C30_FinalizedOnce == finalizeCalls <= 1 /\ Cardinality(Posted) <= 1

====
